---- MODULE Spec2Model ----
(***************************************************************************)
(* Generation streaming of the InBot chat application.                     *)
(*                                                                         *)
(* The parts of the application and their specifications:                  *)
(*                                                                         *)
(*   SpecWs, SpecWsAny  the WebSocket endpoint as the repository writes    *)
(*           it (src/unnamed/part_001, "Integration Points", section 1):   *)
(*           websocket_endpoint on the server and ChatWebSocket on the     *)
(*           client.  stream_ai_response is imported from                  *)
(*           app.services.ai_service, which the repository does not hold;  *)
(*           it is modelled as the Provider Adapter's lazy delta sequence. *)
(*                                                                         *)
(*   Spec, SpecSsm  the Generation Job registry, the job state machine,    *)
(*           the Cancellation Controller, the Orchestrator's finalize      *)
(*           step and the Session Stream Manager.  The repository holds    *)
(*           no code for these components; they are modelled from the      *)
(*           design sections 3 to 7.                                       *)
(*                                                                         *)
(*   SpecCm  the Redis-backed ConnectionManager (part_001:209-235).        *)
(*                                                                         *)
(*   SpecRetry  call_ai_provider_with_retry (part_001:1002-1017).          *)
(*                                                                         *)
(*   SpecFe  the web client: the auth store, the ApiClient and the route   *)
(*           guards (frontend/src, src/unnamed/part_005 to part_007).      *)
(*                                                                         *)
(*   SpecSessions  the sessions store with the sessions list page and the  *)
(*           session detail page (frontend/src/lib/store/sessions.ts).     *)
(***************************************************************************)
EXTENDS Integers, Sequences, FiniteSets, TLC

(***************************************************************************)
(* Bounds of the model.                                                    *)
(***************************************************************************)
stop_after_attempt == 3   \* stop=stop_after_attempt(3)

MaxChunks == 2     \* text deltas one adapter invocation yields at most
MaxStops == 1      \* stop_generation events a client keeps in flight
MaxAttempts == 2   \* job creation attempts in one run
MaxCancels == 2    \* cancel(message id) calls in one run
MaxTokens == 2     \* token pairs the auth server issues in one run
MaxSessions == 2   \* sessions the server creates in one run
MaxRequests == 2   \* requests of the sessions store in flight at a time

QueueBound == 2    \* events a connection's send queue holds at most
MaxBroadcasts == 2 \* messages broadcast through the ConnectionManager

Conns == {"tabA", "tabB"}         \* WebSocket connections (two browser tabs)
MsgIds == {1, 2}                  \* message ids handed out in one run
JobIds == 1..MaxAttempts
\* What the backend answers: an adapter invocation yields the fragments of
\* one of these texts in order.
Responses == {<<"Hi", " there">>}
WsResponses == {<<"Hi", " there">>, <<"Once upon", " a time">>}
Fragments(R) == UNION {{r[i] : i \in DOMAIN r} : r \in R}
Usages == {7, 9}                  \* usage.total of the usage-final delta
WsUsages == {7}
\* send_message payloads: "Hello" as one text part, a message without
\* content parts, a message with a role outside the role constraints.
TextPart(n) == [type |-> "text", len |-> n]
Messages ==
    {[role |-> "user", content_parts |-> <<TextPart(5)>>],
     [role |-> "user", content_parts |-> <<>>],
     [role |-> "admin", content_parts |-> <<TextPart(5)>>]}
Sessions == {"s1", "s2"}          \* session ids
None == "None"
\* The classes a provider error falls in.
ProviderErrors == {"rate-limited", "auth-failed", "context-too-long",
                   "transient-network", "unknown"}
ErrorClasses == {"transient-network", "rate-limited"}
NoMsg == [persisted |-> FALSE, generating |-> FALSE, content |-> <<>>,
          status |-> <<>>, usage |-> 0]
NoJob == [state |-> "None", message_id |-> 0,
          chunk_seq |-> 0, cancel |-> FALSE, content |-> <<>>]

VARIABLES
    \* ---- websocket_endpoint / ChatWebSocket (src/unnamed/part_001) ----
    wsPc,        \* wsPc[c]: where the handler coroutine of connection c stands
    readyState,  \* readyState[c]: the client's WebSocket.readyState
    inbox,       \* inbox[c]: client events sent and not yet received
    sent,        \* sent[c]: the events send_json delivered, in order
    streamMsg,   \* streamMsg[c]: message id of the stream the handler runs
    wsNextId,    \* next message id the endpoint hands out
    stopIssued,  \* stopIssued[c]: what client c had received when it last sent
                 \* stop_generation (history of ChatWebSocket.stopGeneration)
    \* ---- generation subsystem (design sections 3 to 7) ----
    jobs,        \* jobs[j]: the Generation Job of attempt j
    registry,    \* the job registry: ids of the active jobs
    chan,        \* chan[j]: deltas the adapter produced, not yet observed
    adapter,     \* adapter[j]: the adapter invocation of job j: where it
                 \* stands and the usage summary it ended with
    produced,    \* produced[j]: text deltas the adapter produced, in order
    messages,    \* messages[m]: the persisted assistant message
    events,      \* events[m]: Stream Events emitted for message id m, in order
    errors,      \* errors of the taxonomy (section 7) that occurred, in order
    attempts,    \* number of job creation attempts made
    cancels,     \* cancels[m]: number of cancel(m) calls made
    \* ---- ConnectionManager (src/unnamed/part_001:209-235) ----
    active_connections,  \* session id -> the WebSocket registered for it
    pubsub,      \* pubsub[c]: the Redis subscription connect made for c and
                 \* the messages its listen_redis task has not handled yet
    published,   \* published[s]: messages broadcast on channel session:s
    sent_text,   \* sent_text[c]: what send_text delivered to WebSocket c
    \* ---- Session Stream Manager (design sections 3, 4.3) ----
    conn_state,  \* conn_state[c]: lifecycle of the Session Connection of c
    send_queue,  \* send_queue[c]: Stream Events queued for c, oldest first
    subscribers, \* subscribers[m]: connections that were open when the
                 \* stream of message id m started and still are
    observed,    \* observed[c][m]: what the client of connection c has
                 \* received for message id m, in order
    \* ---- call_ai_provider_with_retry (src/unnamed/part_001:1002-1017) ----
    retry_state, \* where the one call of the decorated function stands
    attempt_number,  \* tenacity's attempt counter of the call
    raised,      \* the errors provider.generate raised, one per failed attempt
    waited,      \* the seconds slept before each retry
    \* ---- web client (frontend/src/lib/store/auth.ts, src/unnamed/part_007,
    \*      frontend/src/components/ProtectedRoute.tsx) ----
    auth,        \* the state of useAuthStore
    localStorage,  \* the keys access_token and refresh_token of localStorage
    location,    \* window.location: pathname and search
    nav,         \* who navigated to the present location, and from where
    inflight,    \* the store actions that await a response of the server
    last_request,  \* the request the ApiClient sent last, as it left
    issued,      \* how many token pairs the server has issued
    valid,       \* the access tokens the server accepts
    returned,    \* returned[a]: how the last call of store action a that
                 \* ended came back to its caller
    overtaken,   \* the calls of login and refreshAccessToken that were in
                 \* flight when a logout completed, and still are
    \* ---- sessions store (frontend/src/lib/store/sessions.ts) ----
    sessionsStore,  \* the state of useSessionsStore
    route,       \* the page that is shown: the list or a session's page
    net,         \* net[slot]: a request on its way, or its answer
    db,          \* the sessions the server stores
    created,     \* how many sessions the server has created
    deleted      \* the ids deleteSession succeeded for since createSession
                 \* was last called or last resolved

wsVars == <<wsPc, readyState, inbox, sent, streamMsg, wsNextId, stopIssued>>
genVars == <<jobs, registry, chan, adapter, produced, messages, events,
             errors, attempts, cancels>>
cmVars == <<active_connections, pubsub, published, sent_text>>
delivery == <<conn_state, send_queue, subscribers>>
ssmVars == <<delivery, observed>>
retryVars == <<retry_state, attempt_number, raised, waited>>
feVars == <<auth, localStorage, location, nav, inflight, last_request,
            issued, valid, returned, overtaken>>
sessionsVars == <<sessionsStore, route, net, db, created, deleted>>
vars == <<wsVars, genVars, cmVars, ssmVars, retryVars, feVars, sessionsVars>>
\* What the steps of one part leave alone of the other parts.
notWs == <<genVars, cmVars, ssmVars, retryVars, feVars, sessionsVars>>
notGen == <<wsVars, cmVars, observed, retryVars, feVars, sessionsVars>>
notCm == <<wsVars, genVars, ssmVars, retryVars, feVars, sessionsVars>>
notSsm == <<wsVars, genVars, cmVars, retryVars, feVars, sessionsVars>>
notRetry == <<wsVars, genVars, cmVars, ssmVars, feVars, sessionsVars>>
notFe == <<wsVars, genVars, cmVars, ssmVars, retryVars, sessionsVars>>
notSessions == <<wsVars, genVars, cmVars, ssmVars, retryVars, feVars>>

(***************************************************************************)
(* Helpers on sequences.                                                   *)
(***************************************************************************)
SelectIdx(s, Test(_)) == {i \in DOMAIN s : Test(s[i])}

HasField(r, f) == f \in DOMAIN r

\* Fragment i of response text r (a text longer than written repeats).
ScriptText(r, i) == r[((i - 1) % Len(r)) + 1]

\* Whether d is the fragment that follows the fragments p of some response.
Continues(R, p, d) ==
    \E r \in R :
        /\ \A i \in DOMAIN p : p[i] = ScriptText(r, i)
        /\ d = ScriptText(r, Len(p) + 1)

(***************************************************************************)
(* websocket_endpoint, src/unnamed/part_001:32-75.                         *)
(***************************************************************************)
InitWs ==
    /\ wsPc = [c \in Conns |-> "accept"]
    /\ readyState = [c \in Conns |-> "CONNECTING"]
    /\ inbox = [c \in Conns |-> <<>>]
    /\ sent = [c \in Conns |-> <<>>]
    /\ streamMsg = [c \in Conns |-> 0]
    /\ wsNextId = 1
    /\ stopIssued = [c \in Conns |-> [message_id |-> 0, running |-> FALSE,
                                      chunks |-> <<>>]]

\* app/schemas/message.py, MessageCreate: whether pydantic accepts the
\* payload (role pattern, 1 to 10 content parts, text parts of at most
\* 100000 characters).
MessageCreate(message) ==
    /\ message.role \in {"user", "assistant", "system"}
    /\ Len(message.content_parts) >= 1
    /\ Len(message.content_parts) <= 10
    /\ \A i \in DOMAIN message.content_parts :
          message.content_parts[i].type = "text"
              => message.content_parts[i].len <= 100000

\* The payloads the application's own client sends.
WellFormed == {message \in Messages : MessageCreate(message)}

\* The wire events exactly as the handler builds them; message_created
\* carries the message it confirms.
message_created(message) == [type |-> "message_created", message |-> message]
stream_start(m) == [type |-> "stream_start", message_id |-> m]
stream_chunk(chunk) == [type |-> "stream_chunk", chunk |-> chunk]
stream_end(usage) == [type |-> "stream_end", usage |-> usage]

\* await websocket.accept()
accept(c) ==
    /\ wsPc[c] = "accept"
    /\ wsPc' = [wsPc EXCEPT ![c] = "receive"]
    /\ readyState' = [readyState EXCEPT ![c] = "OPEN"]
    /\ UNCHANGED <<inbox, sent, streamMsg, wsNextId, stopIssued>>
    /\ UNCHANGED notWs

\* ChatWebSocket.sendMessage(message: any)
sendMessage(c, message) ==
    /\ readyState[c] = "OPEN"
    /\ Len(inbox[c]) < Cardinality(MsgIds)
    /\ inbox' = [inbox EXCEPT ![c] =
                    Append(@, [type |-> "send_message", message |-> message])]
    /\ UNCHANGED <<wsPc, readyState, sent, streamMsg, wsNextId, stopIssued>>
    /\ UNCHANGED notWs

\* Positions in sent[c] of the events of the stream that stream_start(m)
\* opened: those after it and before the next stream_start.
StreamSegment(c, m) ==
    LET at == {i \in DOMAIN sent[c] : sent[c][i] = stream_start(m)}
    IN  IF at = {} THEN {}
        ELSE LET a == CHOOSE i \in at : TRUE
                 later == {i \in DOMAIN sent[c] :
                              i > a /\ sent[c][i].type = "stream_start"}
             IN  {i \in DOMAIN sent[c] : i > a /\ \A k \in later : i < k}

WsTerminalTypes == {"stream_end", "stream_error"}

WsTerminals(c, m) ==
    {i \in StreamSegment(c, m) : sent[c][i].type \in WsTerminalTypes}

WsChunks(c, m) ==
    {i \in StreamSegment(c, m) : sent[c][i].type = "stream_chunk"}

\* The chunks client c was sent for message id m, in order.
WsContent(c, m) ==
    LET a == CHOOSE i \in DOMAIN sent[c] : sent[c][i] = stream_start(m)
    IN  [k \in 1..Cardinality(WsChunks(c, m)) |-> sent[c][a + k].chunk]

\* ChatWebSocket.stopGeneration
stopGeneration(c, m) ==
    /\ readyState[c] = "OPEN"
    /\ \E i \in DOMAIN sent[c] : sent[c][i] = stream_start(m)
    /\ Cardinality({i \in DOMAIN inbox[c] :
                        inbox[c][i].type = "stop_generation"}) < MaxStops
    /\ inbox' = [inbox EXCEPT ![c] =
                    Append(@, [type |-> "stop_generation", message_id |-> m])]
    /\ stopIssued' = [stopIssued EXCEPT ![c] =
                        [message_id |-> m, running |-> WsTerminals(c, m) = {},
                         chunks |-> WsContent(c, m)]]
    /\ UNCHANGED <<wsPc, readyState, sent, streamMsg, wsNextId>>
    /\ UNCHANGED notWs

\* ChatWebSocket.disconnect
disconnect(c) ==
    /\ readyState[c] = "OPEN"
    /\ readyState' = [readyState EXCEPT ![c] = "CLOSED"]
    /\ UNCHANGED <<wsPc, inbox, sent, streamMsg, wsNextId, stopIssued>>
    /\ UNCHANGED notWs

\* receive_json returns a send_message: message_created and stream_start
\* are sent and the handler enters the async for over stream_ai_response.
receive_send_message(c) ==
    /\ wsPc[c] = "receive"
    /\ readyState[c] = "OPEN"
    /\ inbox[c] # <<>>
    /\ Head(inbox[c]).type = "send_message"
    /\ wsNextId \in MsgIds
    /\ inbox' = [inbox EXCEPT ![c] = Tail(@)]
    /\ sent' = [sent EXCEPT ![c] = @ \o <<message_created(Head(inbox[c]).message),
                                          stream_start(wsNextId)>>]
    /\ streamMsg' = [streamMsg EXCEPT ![c] = wsNextId]
    /\ wsNextId' = wsNextId + 1
    /\ wsPc' = [wsPc EXCEPT ![c] = "stream"]
    /\ UNCHANGED <<readyState, stopIssued>>
    /\ UNCHANGED notWs

\* receive_json returns a stop_generation: break leaves the loop and the
\* handler returns, which closes the socket.
receive_stop_generation(c) ==
    /\ wsPc[c] = "receive"
    /\ readyState[c] = "OPEN"
    /\ inbox[c] # <<>>
    /\ Head(inbox[c]).type = "stop_generation"
    /\ inbox' = [inbox EXCEPT ![c] = Tail(@)]
    /\ wsPc' = [wsPc EXCEPT ![c] = "returned"]
    /\ readyState' = [readyState EXCEPT ![c] = "CLOSED"]
    /\ UNCHANGED <<sent, streamMsg, wsNextId, stopIssued>>
    /\ UNCHANGED notWs

\* The chunks the generator of the running stream has yielded so far.
Yielded(c) ==
    LET starts == {i \in DOMAIN sent[c] : sent[c][i].type = "stream_start"}
        last == CHOOSE i \in starts : \A k \in starts : k <= i
        idx == {i \in DOMAIN sent[c] : i > last /\ sent[c][i].type = "stream_chunk"}
    IN  [k \in 1..Cardinality(idx) |-> sent[c][last + k].chunk]

\* One turn of "async for chunk in stream_ai_response(...)": the generator
\* yields a chunk and the handler sends it.
send_stream_chunk(c, chunk) ==
    /\ wsPc[c] = "stream"
    /\ readyState[c] = "OPEN"
    /\ Len(Yielded(c)) < MaxChunks
    /\ Continues(WsResponses, Yielded(c), chunk)
    /\ sent' = [sent EXCEPT ![c] = Append(@, stream_chunk(chunk))]
    /\ UNCHANGED <<wsPc, readyState, inbox, streamMsg, wsNextId, stopIssued>>
    /\ UNCHANGED notWs

\* The generator is exhausted: stream_end is sent and the handler goes back
\* to receive_json.
send_stream_end(c, usage) ==
    /\ wsPc[c] = "stream"
    /\ readyState[c] = "OPEN"
    /\ sent' = [sent EXCEPT ![c] = Append(@, stream_end(usage))]
    /\ wsPc' = [wsPc EXCEPT ![c] = "receive"]
    /\ UNCHANGED <<readyState, inbox, streamMsg, wsNextId, stopIssued>>
    /\ UNCHANGED notWs

\* The generator raises a provider error.  The handler's only except clause
\* is "except WebSocketDisconnect", so the exception leaves the handler and
\* the socket is closed; nothing is sent.
provider_exception(c) ==
    /\ wsPc[c] = "stream"
    /\ readyState[c] = "OPEN"
    /\ wsPc' = [wsPc EXCEPT ![c] = "raised"]
    /\ readyState' = [readyState EXCEPT ![c] = "CLOSED"]
    /\ UNCHANGED <<inbox, sent, streamMsg, wsNextId, stopIssued>>
    /\ UNCHANGED notWs

\* except WebSocketDisconnect: the client is gone, the handler prints and
\* returns.
WebSocketDisconnect(c) ==
    /\ wsPc[c] \in {"receive", "stream"}
    /\ readyState[c] = "CLOSED"
    /\ wsPc' = [wsPc EXCEPT ![c] = "disconnected"]
    /\ UNCHANGED <<readyState, inbox, sent, streamMsg, wsNextId, stopIssued>>
    /\ UNCHANGED notWs

websocket_endpoint(c) ==
    \/ accept(c)
    \/ receive_send_message(c)
    \/ receive_stop_generation(c)
    \/ \E chunk \in Fragments(WsResponses) : send_stream_chunk(c, chunk)
    \/ \E usage \in WsUsages : send_stream_end(c, usage)
    \/ provider_exception(c)
    \/ WebSocketDisconnect(c)

ChatWebSocket(c) ==
    \/ \E message \in WellFormed : sendMessage(c, message)
    \/ \E m \in MsgIds : stopGeneration(c, m)
    \/ disconnect(c)

\* A WebSocket client other than the application's own: it sends whatever
\* payload it likes.
AnyClient(c) == \E message \in Messages : sendMessage(c, message)

\* What the handler itself can do without the generator producing anything.
HandlerStep(c) ==
    \/ accept(c)
    \/ receive_send_message(c)
    \/ receive_stop_generation(c)
    \/ WebSocketDisconnect(c)

(***************************************************************************)
(* ConnectionManager, src/unnamed/part_001:209-235.                        *)
(***************************************************************************)
NoPubsub == [session |-> None, joined |-> 0, queue |-> <<>>]

\* ConnectionManager.__init__
InitCm ==
    /\ active_connections = [s \in Sessions |-> None]
    /\ pubsub = [c \in Conns |-> NoPubsub]
    /\ published = [s \in Sessions |-> <<>>]
    /\ sent_text = [c \in Conns |-> <<>>]

\* ConnectionManager.connect(session_id, websocket): the WebSocket is stored
\* under its session id, a subscription to the session's channel is made and
\* a listen_redis task is started for it.
connect(session_id, websocket) ==
    /\ pubsub[websocket].session = None
    /\ active_connections' = [active_connections EXCEPT ![session_id] = websocket]
    /\ pubsub' = [pubsub EXCEPT ![websocket] =
                     [session |-> session_id,
                      joined |-> Len(published[session_id]),
                      queue |-> <<>>]]
    /\ UNCHANGED <<published, sent_text>>
    /\ UNCHANGED notCm

\* ConnectionManager.broadcast(session_id, message): Redis hands the message
\* to every subscription of the session's channel.
broadcast(session_id, message) ==
    /\ Len(published[session_id]) < MaxBroadcasts
    /\ message = Len(published[session_id]) + 1
    /\ published' = [published EXCEPT ![session_id] = Append(@, message)]
    /\ pubsub' = [c \in Conns |->
                     IF pubsub[c].session = session_id
                     THEN [pubsub[c] EXCEPT !.queue = Append(@, message)]
                     ELSE pubsub[c]]
    /\ UNCHANGED <<active_connections, sent_text>>
    /\ UNCHANGED notCm

\* One turn of the listen_redis task connect started for c: the message is
\* sent to the WebSocket active_connections holds for the session.
listen_redis(c) ==
    /\ pubsub[c].queue # <<>>
    /\ LET ws == active_connections[pubsub[c].session]
       IN  sent_text' = IF ws # None
                        THEN [sent_text EXCEPT ![ws] = Append(@, Head(pubsub[c].queue))]
                        ELSE sent_text
    /\ pubsub' = [pubsub EXCEPT ![c].queue = Tail(@)]
    /\ UNCHANGED <<active_connections, published>>
    /\ UNCHANGED notCm

ConnectionManager ==
    \/ \E s \in Sessions : \E c \in Conns : connect(s, c)
    \/ \E s \in Sessions : \E n \in 1..MaxBroadcasts : broadcast(s, n)
    \/ \E c \in Conns : listen_redis(c)

(***************************************************************************)
(* call_ai_provider_with_retry, src/unnamed/part_001:1002-1017: the        *)
(* function under tenacity's @retry.  No retry= condition is given, so     *)
(* tenacity retries on every exception.                                    *)
(***************************************************************************)
InitRetry ==
    /\ retry_state = "idle"
    /\ attempt_number = 0
    /\ raised = <<>>
    /\ waited = <<>>

RECURSIVE Pow2(_)
Pow2(n) == IF n = 0 THEN 1 ELSE 2 * Pow2(n - 1)

\* wait_exponential(multiplier=1, min=2, max=10) after failed attempt n.
wait_exponential(n) ==
    LET exp == 1 * Pow2(n - 1)
        capped == IF exp > 10 THEN 10 ELSE exp
    IN  IF capped < 2 THEN 2 ELSE capped

\* tenacity's default retry condition: any exception.
ShouldRetry(e) == TRUE

\* The decorated function is called: first attempt.
call_ai_provider_with_retry ==
    /\ retry_state = "idle"
    /\ retry_state' = "calling"
    /\ attempt_number' = 1
    /\ UNCHANGED <<raised, waited>>
    /\ UNCHANGED notRetry

\* provider.generate(prompt) returns: the call returns its result.
generate_returns ==
    /\ retry_state = "calling"
    /\ retry_state' = "returned"
    /\ UNCHANGED <<attempt_number, raised, waited>>
    /\ UNCHANGED notRetry

\* provider.generate(prompt) raises e: the function prints and re-raises;
\* tenacity stops with RetryError after the last attempt, raises e when the
\* retry condition rejects it, and otherwise sleeps before the next attempt.
generate_raises(e) ==
    /\ retry_state = "calling"
    /\ raised' = Append(raised, e)
    /\ IF ~ShouldRetry(e)
       THEN retry_state' = "raised" /\ UNCHANGED waited
       ELSE IF attempt_number >= stop_after_attempt
            THEN retry_state' = "RetryError" /\ UNCHANGED waited
            ELSE /\ retry_state' = "sleeping"
                 /\ waited' = Append(waited, wait_exponential(attempt_number))
    /\ UNCHANGED attempt_number
    /\ UNCHANGED notRetry

\* The sleep is over: next attempt.
next_attempt ==
    /\ retry_state = "sleeping"
    /\ retry_state' = "calling"
    /\ attempt_number' = attempt_number + 1
    /\ UNCHANGED <<raised, waited>>
    /\ UNCHANGED notRetry

Retrying ==
    \/ call_ai_provider_with_retry
    \/ generate_returns
    \/ \E e \in ProviderErrors : generate_raises(e)
    \/ next_attempt

(***************************************************************************)
(* The generation subsystem: Generation Job registry, job state machine,   *)
(* Provider Adapter contract, Orchestrator and Cancellation Controller.    *)
(***************************************************************************)
InitGen ==
    /\ jobs = [j \in JobIds |-> NoJob]
    /\ registry = {}
    /\ chan = [j \in JobIds |-> <<>>]
    /\ adapter = [j \in JobIds |-> [st |-> "idle", usage |-> 0]]
    /\ produced = [j \in JobIds |-> <<>>]
    /\ messages = [m \in MsgIds |-> NoMsg]
    /\ events = [m \in MsgIds |-> <<>>]
    /\ errors = <<>>
    /\ attempts = 0
    /\ cancels = [m \in MsgIds |-> 0]

\* No client is connected when the Session Stream Manager is created.
InitSsm ==
    /\ conn_state = [c \in Conns |-> "closed"]
    /\ send_queue = [c \in Conns |-> <<>>]
    /\ subscribers = [m \in MsgIds |-> {}]
    /\ observed = [c \in Conns |-> [m \in MsgIds |-> <<>>]]

ActiveStates == {"Queued", "Streaming"}
TerminalStates == {"Completed", "Cancelled", "Failed"}

\* Stream Events of the wire protocol (section 6).
StreamStart(m) == [type |-> "stream_start", message_id |-> m]
StreamChunk(m, chunk, i) ==
    [type |-> "stream_chunk", message_id |-> m, chunk |-> chunk, chunk_index |-> i]
StreamEnd(m, usage) == [type |-> "stream_end", message_id |-> m, usage |-> usage]
StreamError(m, e) == [type |-> "stream_error", message_id |-> m, error |-> e]

StoppedByUser == [type |-> "info", text |-> "stopped by user"]
ErrorStatus(e) == [type |-> "error", text |-> e]

\* Registry lookup: the active jobs registered for message id m.
RegistryLookup(m) == {j \in registry : jobs[j].message_id = m}

\* A check-and-insert that inserts without looking the message id up.
CanInsert_unchecked(m) == TRUE

\* The check of the registry's atomic check-and-insert.
CanInsert(m) == RegistryLookup(m) = {}

\* Message store: append(message) of a generating assistant message.
AppendMessage(m) ==
    [messages EXCEPT ![m] = [NoMsg EXCEPT !.persisted = TRUE, !.generating = TRUE]]

\* A finalize that stores the status and usage and loses the content parts.
Finalize_noContent(m, content, status, usage) ==
    [messages EXCEPT ![m] = [persisted |-> TRUE, generating |-> FALSE,
                             content |-> <<>>, status |-> status,
                             usage |-> usage]]

\* Message store: finalize(message_id, content_parts, status, usage).
Finalize(m, content, status, usage) ==
    [messages EXCEPT ![m] = [persisted |-> TRUE, generating |-> FALSE,
                             content |-> content, status |-> status,
                             usage |-> usage]]

\* Accumulation that puts the newest part first.
Accumulate_prepend(content, chunk) == <<chunk>> \o content

\* Content parts accumulate in arrival order.
Accumulate(content, chunk) == Append(content, chunk)

\* Stream Events are serialized per message id; no order is kept across
\* message ids (section 5).
Emit(m, ev) == [events EXCEPT ![m] = Append(@, ev)]

\* What a late-joining connection receives for a message: the full final
\* message once persisted.
FinalMessage(m, content) ==
    [type |-> "message", message_id |-> m, content |-> content]

\* The session a message belongs to and the session a connection is bound
\* to: both browser tabs are on session s1, which the first message is sent
\* on; the second message is sent on another session.
SessionOf(m) == IF m = 1 THEN "s1" ELSE "s2"
ConnSession(c) == "s1"

\* The connections open on session s.
OpenConns(s) == {c \in Conns : conn_state[c] = "open" /\ ConnSession(c) = s}

\* A delivery that also reaches the connections that joined mid-stream.
Recipients_allOpen(m, ev) == OpenConns(SessionOf(m))

\* The connections event ev of message id m is delivered to: every open
\* connection for stream_start, afterwards those that saw the stream start.
Recipients(m, ev) ==
    IF ev.type = "stream_start" THEN OpenConns(SessionOf(m))
    ELSE subscribers[m] \cap OpenConns(SessionOf(m))

\* What is queued for connection c when ev is emitted for message id m
\* (<<>> when nothing is): a late joiner gets the final message in place of
\* the terminal event.
Outbound(c, m, ev, content) ==
    IF c \in Recipients(m, ev) THEN <<ev>>
    ELSE IF c \in OpenConns(SessionOf(m)) /\ ev.type \in {"stream_end", "stream_error"}
         THEN <<FinalMessage(m, content)>>
         ELSE <<>>

\* A send queue that accepts whatever is queued.
Overflows_never(c) == FALSE

\* Whether one more event exceeds the bound of c's send queue.
Overflows(c) == Len(send_queue[c]) >= QueueBound

\* The connections dropped when ev is emitted: those it overflows.
Dropped(m, ev, content) ==
    {c \in Conns : Outbound(c, m, ev, content) # <<>> /\ Overflows(c)}

\* Session Stream Manager: ev is emitted for message id m and queued for its
\* recipients without waiting for any of them; a connection whose send queue
\* is full is dropped.
EmitEvent(m, ev, content) ==
    /\ events' = Emit(m, ev)
    /\ conn_state' = [c \in Conns |->
                         IF c \in Dropped(m, ev, content)
                         THEN "dropped" ELSE conn_state[c]]
    /\ send_queue' = [c \in Conns |->
                         IF c \in Dropped(m, ev, content) THEN <<>>
                         ELSE send_queue[c] \o Outbound(c, m, ev, content)]
    /\ subscribers' = [k \in MsgIds |->
                          IF k = m /\ ev.type = "stream_start"
                          THEN OpenConns(SessionOf(m)) \ Dropped(m, ev, content)
                          ELSE subscribers[k] \ Dropped(m, ev, content)]

\* Atomic check-and-insert of attempt j for message id m: the job is
\* registered Queued and stream_start is emitted, or the attempt is rejected
\* with DuplicateGenerationError and nothing else changes.
check_and_insert(j, m) ==
    IF CanInsert(m)
    THEN /\ registry' = registry \cup {j}
         /\ jobs' = [jobs EXCEPT ![j] =
                        [NoJob EXCEPT !.state = "Queued", !.message_id = m]]
         /\ adapter' = [adapter EXCEPT ![j].st = "running"]
         /\ EmitEvent(m, StreamStart(m), <<>>)
         /\ UNCHANGED errors
    ELSE /\ errors' = Append(errors, [error |-> "DuplicateGenerationError",
                                      message_id |-> m])
         /\ UNCHANGED <<registry, jobs, adapter, events, delivery>>

\* Orchestrator.submit(session id, user content): a fresh assistant message
\* id is appended with generating set and exactly one job is created.
submit ==
    /\ attempts < MaxAttempts
    /\ \E m \in MsgIds :
        /\ ~messages[m].persisted
        /\ \A k \in MsgIds : k < m => messages[k].persisted
        /\ messages' = AppendMessage(m)
        /\ check_and_insert(attempts + 1, m)
    /\ attempts' = attempts + 1
    /\ UNCHANGED <<chan, produced, cancels>>
    /\ UNCHANGED notGen

\* A further request to generate for a message id that is still generating
\* (a finalized message is immutable and is never generated for again).
request_generation(m) ==
    /\ attempts < MaxAttempts
    /\ messages[m].persisted
    /\ messages[m].generating
    /\ check_and_insert(attempts + 1, m)
    /\ attempts' = attempts + 1
    /\ UNCHANGED <<chan, produced, messages, cancels>>
    /\ UNCHANGED notGen

\* A job test that lets a terminal job through.
IsActive_created(j) == jobs[j].state # "None"

\* Whether job j is registered and not terminal.
IsActive(j) == j \in registry /\ jobs[j].state \in ActiveStates

\* Provider Adapter: the next text delta of the lazy sequence.
adapter_text(j, d) ==
    /\ adapter[j].st = "running"
    /\ chan[j] = <<>>
    /\ Len(produced[j]) < MaxChunks
    /\ Continues(Responses, produced[j], d)
    /\ chan' = [chan EXCEPT ![j] = Append(@, [kind |-> "text", text |-> d])]
    /\ produced' = [produced EXCEPT ![j] = Append(@, d)]
    /\ UNCHANGED <<jobs, registry, adapter, messages, events, errors,
                   attempts, cancels>>
    /\ UNCHANGED delivery
    /\ UNCHANGED notGen

\* Provider Adapter: the sequence ends normally with the usage-final delta.
adapter_usage_final(j, u) ==
    /\ adapter[j].st = "running"
    /\ chan[j] = <<>>
    /\ chan' = [chan EXCEPT ![j] = Append(@, [kind |-> "usage", usage |-> u])]
    /\ adapter' = [adapter EXCEPT ![j] = [st |-> "ended", usage |-> u]]
    /\ UNCHANGED <<jobs, registry, produced, messages, events, errors,
                   attempts, cancels>>
    /\ UNCHANGED delivery
    /\ UNCHANGED notGen

\* Provider Adapter: a backend error, surfaced classified.
adapter_error(j, e) ==
    /\ adapter[j].st = "running"
    /\ chan[j] = <<>>
    /\ chan' = [chan EXCEPT ![j] = Append(@, [kind |-> "error", error |-> e])]
    /\ adapter' = [adapter EXCEPT ![j].st = "failed"]
    /\ UNCHANGED <<jobs, registry, produced, messages, events, errors,
                   attempts, cancels>>
    /\ UNCHANGED delivery
    /\ UNCHANGED notGen

\* Provider Adapter: it polls its cancellation token, finds it set and
\* returns the "cancelled" terminal marker.
adapter_ack_cancel(j) ==
    /\ adapter[j].st = "running"
    /\ jobs[j].cancel
    /\ chan[j] = <<>>
    /\ chan' = [chan EXCEPT ![j] = Append(@, [kind |-> "cancelled"])]
    /\ adapter' = [adapter EXCEPT ![j].st = "acked"]
    /\ UNCHANGED <<jobs, registry, produced, messages, events, errors,
                   attempts, cancels>>
    /\ UNCHANGED delivery
    /\ UNCHANGED notGen

\* A removal that empties the registry.
RemoveOnTerminal_all(j) == {}

\* The registry's atomic remove-on-terminal.
RemoveOnTerminal(j) == registry \ {j}

\* The job leaves the registry in terminal state st, its message is
\* finalized and the terminal Stream Event is emitted.
Terminate(j, st, status, usage, ev) ==
    /\ jobs' = [jobs EXCEPT ![j].state = st]
    /\ registry' = RemoveOnTerminal(j)
    /\ messages' = Finalize(jobs[j].message_id, jobs[j].content, status, usage)
    /\ EmitEvent(jobs[j].message_id, ev, jobs[j].content)

\* A text delta is observed: Streaming is entered on the first one, the
\* delta is accumulated and sent as the next stream_chunk.
observe_text(j) ==
    /\ IsActive(j)
    /\ chan[j] # <<>>
    /\ Head(chan[j]).kind = "text"
    /\ chan' = [chan EXCEPT ![j] = Tail(@)]
    /\ jobs' = [jobs EXCEPT ![j].state = "Streaming",
                            ![j].content = Accumulate(@, Head(chan[j]).text),
                            ![j].chunk_seq = @ + 1]
    /\ EmitEvent(jobs[j].message_id,
                 StreamChunk(jobs[j].message_id, Head(chan[j]).text,
                             jobs[j].chunk_seq), <<>>)
    /\ UNCHANGED <<registry, adapter, produced, messages, errors, attempts,
                   cancels>>
    /\ UNCHANGED notGen

\* The usage-final delta is observed: Completed.
observe_usage_final(j) ==
    /\ IsActive(j)
    /\ chan[j] # <<>>
    /\ Head(chan[j]).kind = "usage"
    /\ chan' = [chan EXCEPT ![j] = Tail(@)]
    /\ Terminate(j, "Completed", <<>>, Head(chan[j]).usage,
                 StreamEnd(jobs[j].message_id, Head(chan[j]).usage))
    /\ UNCHANGED <<adapter, produced, errors, attempts, cancels>>
    /\ UNCHANGED notGen

\* A classified adapter error is observed: Failed.
observe_error(j) ==
    /\ IsActive(j)
    /\ chan[j] # <<>>
    /\ Head(chan[j]).kind = "error"
    /\ chan' = [chan EXCEPT ![j] = Tail(@)]
    /\ Terminate(j, "Failed", <<ErrorStatus(Head(chan[j]).error)>>, 0,
                 StreamError(jobs[j].message_id, Head(chan[j]).error))
    /\ UNCHANGED <<adapter, produced, errors, attempts, cancels>>
    /\ UNCHANGED notGen

\* The adapter's "cancelled" marker is observed: Cancelled.
observe_cancelled(j) ==
    /\ IsActive(j)
    /\ chan[j] # <<>>
    /\ Head(chan[j]).kind = "cancelled"
    /\ chan' = [chan EXCEPT ![j] = Tail(@)]
    /\ Terminate(j, "Cancelled", <<StoppedByUser>>, 0,
                 StreamEnd(jobs[j].message_id, 0))
    /\ UNCHANGED <<adapter, produced, errors, attempts, cancels>>
    /\ UNCHANGED notGen

\* A grace timer that is not disarmed when the job ends.
TimeoutArmed_flagOnly(j) == jobs[j].state # "None" /\ jobs[j].cancel

\* Whether the hard grace timeout of job j can fire.
TimeoutArmed(j) == IsActive(j) /\ jobs[j].cancel

\* CancellationTimeout: the grace period after a cancellation request has
\* passed without the job reaching a terminal state; it is forced Cancelled.
cancellation_timeout(j) ==
    /\ TimeoutArmed(j)
    /\ Terminate(j, "Cancelled", <<StoppedByUser>>, 0,
                 StreamEnd(jobs[j].message_id, 0))
    /\ errors' = Append(errors, [error |-> "CancellationTimeout",
                                 message_id |-> jobs[j].message_id])
    /\ UNCHANGED <<chan, adapter, produced, attempts, cancels>>
    /\ UNCHANGED notGen

\* Whether what arrives for job j is no longer accepted.
NotAccepted(j) == jobs[j].state \in TerminalStates

\* A delta or marker arrives for a job that is already terminal: dropped.
drop_late(j) ==
    /\ NotAccepted(j)
    /\ chan[j] # <<>>
    /\ chan' = [chan EXCEPT ![j] = Tail(@)]
    /\ UNCHANGED <<jobs, registry, adapter, produced, messages, events,
                   errors, attempts, cancels>>
    /\ UNCHANGED delivery
    /\ UNCHANGED notGen

RECURSIVE Sum(_, _)
Sum(f, S) == IF S = {} THEN 0
             ELSE LET x == CHOOSE y \in S : TRUE IN f[x] + Sum(f, S \ {x})

SumCancels == Sum(cancels, MsgIds)

\* A lookup that also finds the jobs that left the registry.
CancelTargets_any(m) ==
    {j \in JobIds : jobs[j].state # "None" /\ jobs[j].message_id = m}

\* The jobs whose cancellation token a cancel(m) sets.
CancelTargets(m) == {j \in RegistryLookup(m) : ~jobs[j].cancel}

\* Cancellation Controller: cancel(message id) sets the token of the active
\* job of the message id and returns; without one it is a no-op.
cancel(m) ==
    /\ SumCancels < MaxCancels
    /\ cancels' = [cancels EXCEPT ![m] = @ + 1]
    /\ jobs' = [j \in JobIds |->
                    IF j \in CancelTargets(m)
                    THEN [jobs[j] EXCEPT !.cancel = TRUE] ELSE jobs[j]]
    /\ UNCHANGED <<registry, chan, adapter, produced, messages, events,
                   errors, attempts>>
    /\ UNCHANGED delivery
    /\ UNCHANGED notGen

\* A client connects: a Session Connection with an empty send queue.
session_connect(c) ==
    /\ conn_state[c] \in {"closed", "dropped"}
    /\ conn_state' = [conn_state EXCEPT ![c] = "open"]
    /\ send_queue' = [send_queue EXCEPT ![c] = <<>>]
    /\ observed' = [observed EXCEPT ![c] = [m \in MsgIds |-> <<>>]]
    /\ UNCHANGED subscribers
    /\ UNCHANGED notSsm

\* A client disconnects: its Session Connection is destroyed.
session_disconnect(c) ==
    /\ conn_state[c] = "open"
    /\ conn_state' = [conn_state EXCEPT ![c] = "closed"]
    /\ send_queue' = [send_queue EXCEPT ![c] = <<>>]
    /\ subscribers' = [m \in MsgIds |-> subscribers[m] \ {c}]
    /\ observed' = [observed EXCEPT ![c] = [m \in MsgIds |-> <<>>]]
    /\ UNCHANGED notSsm

\* The client of connection c takes the oldest event off its send queue.
client_receive(c) ==
    /\ conn_state[c] = "open"
    /\ send_queue[c] # <<>>
    /\ observed' = [observed EXCEPT ![c][Head(send_queue[c]).message_id] =
                        Append(@, Head(send_queue[c]))]
    /\ send_queue' = [send_queue EXCEPT ![c] = Tail(@)]
    /\ UNCHANGED <<conn_state, subscribers>>
    /\ UNCHANGED notSsm

SessionConnection(c) ==
    \/ session_connect(c)
    \/ session_disconnect(c)
    \/ client_receive(c)

\* Generation as the connected clients of a session see it: messages are
\* submitted, their jobs run to Completed or Failed.
Generation(j) ==
    \/ \E d \in Fragments(Responses) : adapter_text(j, d)
    \/ \E u \in Usages : adapter_usage_final(j, u)
    \/ \E e \in ErrorClasses : adapter_error(j, e)
    \/ observe_text(j)
    \/ observe_usage_final(j)
    \/ observe_error(j)

Orchestrator ==
    \/ submit
    \/ \E m \in MsgIds : request_generation(m)

ProviderAdapter(j) ==
    \/ \E d \in Fragments(Responses) : adapter_text(j, d)
    \/ \E u \in Usages : adapter_usage_final(j, u)
    \/ \E e \in ErrorClasses : adapter_error(j, e)
    \/ adapter_ack_cancel(j)

GenerationJob(j) ==
    \/ observe_text(j)
    \/ observe_usage_final(j)
    \/ observe_error(j)
    \/ observe_cancelled(j)
    \/ cancellation_timeout(j)
    \/ drop_late(j)

CancellationController == \E m \in MsgIds : cancel(m)

(***************************************************************************)
(* The web client: the auth store (frontend/src/lib/store/auth.ts), the    *)
(* ApiClient (src/unnamed/part_007) and the route guards ProtectedRoute    *)
(* (frontend/src/components/ProtectedRoute.tsx) and AuthGuard              *)
(* (frontend/src/app/layout.tsx).                                          *)
(*                                                                         *)
(* A string that is looked into is a sequence of tokens; a token is one    *)
(* reserved character or a run of unreserved ones.  A token pair of the    *)
(* server is a number from 1 on; 0 is the null of a token field.           *)
(***************************************************************************)
NoToken == 0
Tokens == 1..MaxTokens

Login == <<"/", "login">>
Register == <<"/", "register">>
Dashboard == <<"/", "dashboard">>
SessionsPage == <<"/", "sessions">>
SessionDetailPage == <<"/", "session", "/", "42">>
Pathnames == {Login, Register, Dashboard, SessionsPage, SessionDetailPage}

\* The component every page of the application wraps its content in.
PageGuard(pathname) ==
    IF pathname \in {Login, Register} THEN "AuthGuard" ELSE "ProtectedRoute"

\* encodeURIComponent: every character that is not unreserved is replaced
\* by the escape of its UTF-8 octet.
escape(ch) ==
    CASE ch = "/" -> "%2F"
      [] ch = "?" -> "%3F"
      [] ch = "=" -> "%3D"
      [] ch = "&" -> "%26"
      [] ch = " " -> "%20"
      [] OTHER -> ch

encodeURIComponent(str) == [i \in 1..Len(str) |-> escape(str[i])]

AuthInitial ==
    [user |-> None, accessToken |-> NoToken, refreshToken |-> NoToken,
     isAuthenticated |-> FALSE, isLoading |-> FALSE, error |-> None]

\* What set({user: null, ...}) of a failed login and of logout leaves.
SignedOut(error) == [AuthInitial EXCEPT !.error = error]

\* persist of 'auth-storage': a page load starts the store from its initial
\* state and merges the persisted user, tokens and isAuthenticated into it.
Rehydrate(state) ==
    [AuthInitial EXCEPT !.user = state.user,
                        !.accessToken = state.accessToken,
                        !.refreshToken = state.refreshToken,
                        !.isAuthenticated = state.isAuthenticated]

NoHeader == [scheme |-> "none", token |-> NoToken]
Bearer(token) == [scheme |-> "Bearer", token |-> token]

InitFe ==
    /\ auth = AuthInitial
    /\ localStorage = [access_token |-> NoToken, refresh_token |-> NoToken]
    /\ location = [pathname |-> Login, search |-> <<>>]
    /\ nav = [by |-> "user", from |-> Login]
    /\ inflight = {}
    /\ last_request = [seq |-> 0, url |-> "none", Authorization |-> NoHeader]
    /\ issued = 0
    /\ valid = {}
    /\ returned = [a \in {"login", "logout", "refreshAccessToken"} |-> "none"]
    /\ overtaken = {}

getToken == localStorage.access_token
getRefreshToken == localStorage.refresh_token
cleared == [access_token |-> NoToken, refresh_token |-> NoToken]
setToken(accessToken, refreshToken) ==
    [access_token |-> accessToken, refresh_token |-> refreshToken]

\* The request interceptor: the Authorization header of a request.
requestInterceptor ==
    IF getToken # NoToken THEN Bearer(getToken) ELSE NoHeader

\* this.client.post / get: the request leaves with the interceptor's header.
request(url) ==
    last_request' = [seq |-> 1 - last_request.seq, url |-> url,
                     Authorization |-> requestInterceptor]

\* router.push(pathname) of the component `by`.
push(by, pathname, search) ==
    /\ location' = [pathname |-> pathname, search |-> search]
    /\ nav' = [by |-> by, from |-> location.pathname]

\* A page load: the scripts of the page that is left stop, the store of the
\* page that loads is rehydrated.
load(by, pathname, state) ==
    /\ push(by, pathname, <<>>)
    /\ auth' = Rehydrate(state)
    /\ inflight' = {}
    /\ overtaken' = {}

\* The response interceptor on a 401: clearToken, window.location.href =
\* '/login'.  `state` is what the handlers that run on the rejection leave
\* in the store before the page is left.
responseInterceptor401(state) ==
    /\ localStorage' = cleared
    /\ load("ApiClient", Login, state)

\* ---- what the route guards return ----
ProtectedRoute_whenNotLoading(isAuthenticated, isLoading) ==
    IF isLoading THEN "LoadingOverlay" ELSE "children"

ProtectedRoute(isAuthenticated, isLoading) ==
    IF isLoading THEN "LoadingOverlay"
    ELSE IF ~isAuthenticated THEN "LoadingOverlay"
    ELSE "children"

AuthGuard(isAuthenticated, isLoading) ==
    IF isLoading THEN "LoadingOverlay"
    ELSE IF isAuthenticated THEN "LoadingOverlay"
    ELSE "children"

\* ---- useAuthStore ----
\* LoginForm is what AuthGuard wraps on /login; handleSubmit awaits login().
login ==
    /\ location.pathname = Login
    /\ AuthGuard(auth.isAuthenticated, auth.isLoading) = "children"
    /\ "login" \notin inflight
    /\ auth' = [auth EXCEPT !.isLoading = TRUE, !.error = None]
    /\ request("/api/v1/auth/login")
    /\ inflight' = inflight \cup {"login"}
    /\ UNCHANGED <<localStorage, location, nav, issued, valid>>
    /\ UNCHANGED returned
    /\ UNCHANGED overtaken
    /\ UNCHANGED notFe

\* The server answers a login or a refresh with a fresh token pair.
TokenResponse == issued + 1

login_resolves ==
    /\ "login" \in inflight
    /\ issued < MaxTokens
    /\ issued' = TokenResponse
    /\ valid' = valid \cup {TokenResponse}
    /\ localStorage' = setToken(TokenResponse, TokenResponse)
    /\ auth' = [user |-> "user", accessToken |-> TokenResponse,
                refreshToken |-> TokenResponse, isAuthenticated |-> TRUE,
                isLoading |-> FALSE, error |-> None]
    /\ inflight' = inflight \ {"login"}
    /\ push("LoginForm", Dashboard, <<>>)
    /\ UNCHANGED last_request
    /\ returned' = [returned EXCEPT !["login"] = "resolved"]
    /\ overtaken' = overtaken \ {"login"}
    /\ UNCHANGED notFe

login_rejects(status) ==
    /\ "login" \in inflight
    /\ IF status = 401
         THEN responseInterceptor401(SignedOut("Login failed"))
         ELSE /\ auth' = SignedOut("Login failed")
              /\ inflight' = inflight \ {"login"}
              /\ overtaken' = overtaken \ {"login"}
              /\ UNCHANGED <<localStorage, location, nav>>
    /\ UNCHANGED <<last_request, issued, valid>>
    /\ returned' = [returned EXCEPT !["login"] = "threw"]
    /\ UNCHANGED notFe

\* RegisterForm is what AuthGuard wraps on /register.
register ==
    /\ location.pathname = Register
    /\ AuthGuard(auth.isAuthenticated, auth.isLoading) = "children"
    /\ inflight \cap {"register", "login"} = {}
    /\ auth' = [auth EXCEPT !.isLoading = TRUE, !.error = None]
    /\ request("/api/v1/auth/register")
    /\ inflight' = inflight \cup {"register"}
    /\ UNCHANGED <<localStorage, location, nav, issued, valid>>
    /\ UNCHANGED returned
    /\ UNCHANGED overtaken
    /\ UNCHANGED notFe

\* apiClient.register returned: get().login(...) starts.
register_resolves ==
    /\ "register" \in inflight
    /\ "login" \notin inflight
    /\ auth' = [auth EXCEPT !.isLoading = TRUE, !.error = None]
    /\ request("/api/v1/auth/login")
    /\ inflight' = (inflight \ {"register"}) \cup {"login"}
    /\ UNCHANGED <<localStorage, location, nav, issued, valid>>
    /\ UNCHANGED returned
    /\ UNCHANGED overtaken
    /\ UNCHANGED notFe

register_rejects(status) ==
    /\ "register" \in inflight
    /\ IF status = 401
         THEN responseInterceptor401(
                  [auth EXCEPT !.isLoading = FALSE,
                               !.error = "Registration failed"])
         ELSE /\ auth' = [auth EXCEPT !.isLoading = FALSE,
                                      !.error = "Registration failed"]
              /\ inflight' = inflight \ {"register"}
              /\ UNCHANGED <<localStorage, location, nav, overtaken>>
    /\ UNCHANGED <<last_request, issued, valid>>
    /\ UNCHANGED returned
    /\ UNCHANGED notFe

\* AppHeader, on every page, shows its menu to an authenticated user;
\* handleLogout awaits logout().
logout ==
    /\ auth.isAuthenticated
    /\ inflight \cap {"logout", "refresh_logout"} = {}
    /\ auth' = [auth EXCEPT !.isLoading = TRUE]
    /\ request("/api/v1/auth/logout")
    /\ inflight' = inflight \cup {"logout"}
    /\ UNCHANGED <<localStorage, location, nav, issued, valid>>
    /\ UNCHANGED returned
    /\ UNCHANGED overtaken
    /\ UNCHANGED notFe

\* ApiClient.logout: what its finally leaves in localStorage, whatever the
\* status of the response.
ApiClient_logout_whenOk(status) ==
    IF status \in {200, 401} THEN cleared ELSE localStorage

ApiClient_logout(status) == cleared

\* The logout request settled: apiClient.logout clears the tokens in its
\* finally, the store signs out in its own.  `op` tells the logout of
\* handleLogout, which goes on to router.push('/login'), from the one
\* refreshAccessToken awaits.
logout_settles(op, status) ==
    /\ op \in {"logout", "refresh_logout"}
    /\ op \in inflight
    /\ localStorage' = ApiClient_logout(status)
    /\ returned' = [returned EXCEPT
                       !["logout"] = "resolved",
                       !["refreshAccessToken"] =
                           IF op = "refresh_logout" THEN "threw" ELSE @]
    /\ IF status = 401
         THEN load("ApiClient", Login, SignedOut(None))
         ELSE /\ auth' = SignedOut(None)
              /\ inflight' = inflight \ {op}
              /\ overtaken' = (inflight \ {op}) \cap {"login", "refresh"}
              /\ IF op = "logout"
                   THEN push("AppHeader", Login, <<>>)
                   ELSE UNCHANGED <<location, nav>>
    /\ UNCHANGED <<last_request, issued, valid>>
    /\ UNCHANGED notFe

refreshAccessToken ==
    /\ auth.refreshToken # NoToken
    /\ inflight \cap {"refresh", "logout", "refresh_logout"} = {}
    /\ IF getRefreshToken = NoToken
         THEN \* apiClient.refreshToken throws; the catch awaits logout()
              /\ auth' = [auth EXCEPT !.isLoading = TRUE]
              /\ request("/api/v1/auth/logout")
              /\ inflight' = inflight \cup {"refresh_logout"}
         ELSE /\ request("/api/v1/auth/refresh")
              /\ inflight' = inflight \cup {"refresh"}
              /\ UNCHANGED auth
    /\ UNCHANGED <<localStorage, location, nav, issued, valid>>
    /\ UNCHANGED returned
    /\ UNCHANGED overtaken
    /\ UNCHANGED notFe

refresh_resolves ==
    /\ "refresh" \in inflight
    /\ issued < MaxTokens
    /\ issued' = TokenResponse
    /\ valid' = valid \cup {TokenResponse}
    /\ localStorage' = setToken(TokenResponse, TokenResponse)
    /\ auth' = [auth EXCEPT !.user = "user",
                            !.accessToken = TokenResponse,
                            !.refreshToken = TokenResponse,
                            !.isAuthenticated = TRUE]
    /\ inflight' = inflight \ {"refresh"}
    /\ UNCHANGED <<location, nav, last_request>>
    /\ returned' = [returned EXCEPT !["refreshAccessToken"] = "resolved"]
    /\ overtaken' = overtaken \ {"refresh"}
    /\ UNCHANGED notFe

\* The refresh failed: the catch awaits logout().  After a 401 the page is
\* being left while that logout is on its way; the store the next page
\* rehydrates is signed out if the logout settled first and is the present
\* one if it did not.
refresh_rejects(status) ==
    /\ "refresh" \in inflight
    /\ "logout" \notin inflight
    /\ IF status = 401
         THEN /\ \E settled \in BOOLEAN :
                    /\ responseInterceptor401(
                           IF settled THEN SignedOut(None) ELSE auth)
                    /\ returned' =
                           IF settled
                           THEN [returned EXCEPT
                                    !["logout"] = "resolved",
                                    !["refreshAccessToken"] = "threw"]
                           ELSE returned
              /\ UNCHANGED last_request
         ELSE /\ auth' = [auth EXCEPT !.isLoading = TRUE]
              /\ request("/api/v1/auth/logout")
              /\ inflight' = (inflight \ {"refresh"}) \cup {"refresh_logout"}
              /\ overtaken' = overtaken \ {"refresh"}
              /\ UNCHANGED <<localStorage, location, nav, returned>>
    /\ UNCHANGED <<issued, valid>>
    /\ UNCHANGED notFe

clearError ==
    /\ auth.error # None
    /\ auth' = [auth EXCEPT !.error = None]
    /\ UNCHANGED <<localStorage, location, nav, inflight, last_request,
                   issued, valid>>
    /\ UNCHANGED returned
    /\ UNCHANGED overtaken
    /\ UNCHANGED notFe

\* ---- the effects of the route guards and the header ----
returnUrl(pathname) ==
    IF pathname # Login /\ pathname # Register THEN pathname ELSE Dashboard

\* The effect of ProtectedRoute.
ProtectedRoute_useEffect ==
    /\ PageGuard(location.pathname) = "ProtectedRoute"
    /\ ~auth.isLoading /\ ~auth.isAuthenticated
    /\ push("ProtectedRoute", Login,
            <<"?", "returnUrl", "=">>
                \o encodeURIComponent(returnUrl(location.pathname)))
    /\ UNCHANGED <<auth, localStorage, inflight, last_request, issued, valid>>
    /\ UNCHANGED returned
    /\ UNCHANGED overtaken
    /\ UNCHANGED notFe

\* The effect of AuthGuard, with its default redirectTo.
AuthGuard_useEffect ==
    /\ PageGuard(location.pathname) = "AuthGuard"
    /\ ~auth.isLoading /\ auth.isAuthenticated
    /\ push("AuthGuard", Dashboard, <<>>)
    /\ UNCHANGED <<auth, localStorage, inflight, last_request, issued, valid>>
    /\ UNCHANGED returned
    /\ UNCHANGED overtaken
    /\ UNCHANGED notFe

\* The links of AppHeader: router.push('/dashboard'), '/sessions'.
AppHeader(pathname) ==
    /\ auth.isAuthenticated
    /\ pathname \in {Dashboard, SessionsPage}
    /\ push("AppHeader", pathname, <<>>)
    /\ UNCHANGED <<auth, localStorage, inflight, last_request, issued, valid>>
    /\ UNCHANGED returned
    /\ UNCHANGED overtaken
    /\ UNCHANGED notFe

\* What the page shows of its content.
Screen ==
    IF PageGuard(location.pathname) = "ProtectedRoute"
    THEN ProtectedRoute(auth.isAuthenticated, auth.isLoading)
    ELSE AuthGuard(auth.isAuthenticated, auth.isLoading)

\* ---- the content of a protected page and the server ----
\* The page's content loads its data: apiClient.getSessions().
getSessions ==
    /\ PageGuard(location.pathname) = "ProtectedRoute"
    /\ Screen = "children"
    /\ request("/api/v1/sessions")
    /\ IF getToken \in valid
         THEN UNCHANGED <<auth, localStorage, location, nav, inflight,
                          overtaken>>
         ELSE responseInterceptor401(auth)
    /\ UNCHANGED <<issued, valid>>
    /\ UNCHANGED returned
    /\ UNCHANGED notFe

\* expires_in has passed for an access token.
token_expires(token) ==
    /\ token \in valid
    /\ valid' = valid \ {token}
    /\ UNCHANGED <<auth, localStorage, location, nav, inflight, last_request,
                   issued>>
    /\ UNCHANGED returned
    /\ UNCHANGED overtaken
    /\ UNCHANGED notFe

\* The user opens a page by its address.
open_page(pathname) ==
    /\ load("user", pathname, auth)
    /\ UNCHANGED <<localStorage, last_request, issued, valid>>
    /\ UNCHANGED returned
    /\ UNCHANGED notFe

Statuses == {401, 500}

useAuthStore ==
    \/ login
    \/ login_resolves
    \/ \E status \in Statuses : login_rejects(status)
    \/ register
    \/ register_resolves
    \/ \E status \in Statuses : register_rejects(status)
    \/ logout
    \/ \E op \in {"logout", "refresh_logout"} :
           \E status \in Statuses \cup {200} : logout_settles(op, status)
    \/ refreshAccessToken
    \/ refresh_resolves
    \/ \E status \in Statuses : refresh_rejects(status)
    \/ clearError

Browser ==
    \/ ProtectedRoute_useEffect
    \/ AuthGuard_useEffect
    \/ \E pathname \in Pathnames : AppHeader(pathname)
    \/ getSessions
    \/ \E token \in Tokens : token_expires(token)
    \/ \E pathname \in Pathnames : open_page(pathname)

(***************************************************************************)
(* The sessions store (frontend/src/lib/store/sessions.ts) with the two    *)
(* pages that call it: the sessions list (frontend/src/app/sessions/       *)
(* page.tsx) and the session detail page (SessionDetailContent in          *)
(* frontend/src/app/layout.tsx).  A session is its id; the server gives    *)
(* every session it creates the next id.  A request is sent, answered by   *)
(* the server and received by the store in three steps, so that the        *)
(* answers of different requests reach the store in any order.             *)
(***************************************************************************)
NoSession == 0
SessionIds == 1..MaxSessions
Slots == 1..MaxRequests
ListRoute == 0    \* the route /sessions; the route /session/<id> is the id

SessionsInitial ==
    [sessions |-> <<>>, currentSession |-> NoSession, total |-> 0,
     isLoading |-> FALSE, error |-> None]

Idle ==
    [kind |-> "idle", id |-> NoSession, origin |-> ListRoute,
     stage |-> "idle", body |-> <<>>]

InitSessions ==
    /\ sessionsStore = SessionsInitial
    /\ route = ListRoute
    /\ net = [slot \in Slots |-> Idle]
    /\ db = {}
    /\ created = 0
    /\ deleted = {}

Ids(list) == {list[i] : i \in DOMAIN list}

\* GET /api/v1/sessions: every session of the user once, newest first.
RECURSIVE SessionListResponse(_)
SessionListResponse(stored) ==
    IF stored = {} THEN <<>>
    ELSE LET newest == CHOOSE id \in stored : \A other \in stored : other <= id
         IN  <<newest>> \o SessionListResponse(stored \ {newest})

FreeSlots == {slot \in Slots : net[slot].stage = "idle"}
FirstFree == CHOOSE slot \in FreeSlots : \A other \in FreeSlots : slot <= other

\* set({ isLoading: true, error: null }), then the apiClient call.
call(slot, kind, id) ==
    /\ sessionsStore' = [sessionsStore EXCEPT !.isLoading = TRUE,
                                              !.error = None]
    /\ net' = [net EXCEPT ![slot] = [kind |-> kind, id |-> id,
                                     origin |-> route, stage |-> "sent",
                                     body |-> <<>>]]

\* ---- the sessions list page ----
\* The page is entered (AppHeader's link, history): its effect runs
\* loadSessions.
loadSessions ==
    /\ FreeSlots # {}
    /\ route' = ListRoute
    /\ call(FirstFree, "fetchSessions", NoSession)
    /\ UNCHANGED <<db, created, deleted>>
    /\ UNCHANGED notSessions

\* What of the page the user can act on: LoadingOverlay covers it while
\* isLoading.
ListShown == route = ListRoute /\ ~sessionsStore.isLoading

handleCreateSession ==
    /\ ListShown
    /\ FreeSlots # {}
    /\ created + Cardinality({slot \in Slots : net[slot].kind = "createSession"
                                            /\ net[slot].stage = "sent"})
           < MaxSessions
    /\ call(FirstFree, "createSession", NoSession)
    /\ deleted' = {}
    /\ UNCHANGED <<route, db, created>>
    /\ UNCHANGED notSessions

\* handleSessionClick: router.push(`/session/${sessionId}`); the detail
\* page's effect runs loadSession.
handleSessionClick(id) ==
    /\ ListShown
    /\ id \in Ids(sessionsStore.sessions)
    /\ FreeSlots # {}
    /\ route' = id
    /\ call(FirstFree, "fetchSession", id)
    /\ UNCHANGED <<db, created, deleted>>
    /\ UNCHANGED notSessions

\* ---- both pages ----
\* The session a button of the page acts on: an entry of the list, or the
\* route's sessionId on the detail page, which shows its buttons when it
\* shows a session.
ActsOn(id) ==
    \/ ListShown /\ id \in Ids(sessionsStore.sessions)
    \/ /\ route = id
       /\ ~sessionsStore.isLoading
       /\ sessionsStore.currentSession # NoSession

handleToggleStar(id) ==
    /\ ActsOn(id)
    /\ FreeSlots # {}
    /\ call(FirstFree, "updateSession", id)
    /\ UNCHANGED <<route, db, created, deleted>>
    /\ UNCHANGED notSessions

handleDeleteConfirm(id) ==
    /\ ActsOn(id)
    /\ FreeSlots # {}
    /\ call(FirstFree, "deleteSession", id)
    /\ UNCHANGED <<route, db, created, deleted>>
    /\ UNCHANGED notSessions

\* ---- the server ----
answer(slot, stage, body) ==
    net' = [net EXCEPT ![slot].stage = stage, ![slot].body = body]

serve(slot) ==
    LET req == net[slot] IN
    /\ req.stage = "sent"
    /\ CASE req.kind = "fetchSessions" ->
              /\ answer(slot, "ok", SessionListResponse(db))
              /\ UNCHANGED <<db, created>>
         [] req.kind = "createSession" ->
              /\ created' = created + 1
              /\ db' = db \cup {created + 1}
              /\ answer(slot, "ok", <<created + 1>>)
         [] req.kind = "deleteSession" ->
              /\ db' = db \ {req.id}
              /\ answer(slot, IF req.id \in db THEN "ok" ELSE "failed", <<>>)
              /\ UNCHANGED created
         [] OTHER ->      \* fetchSession, updateSession
              /\ answer(slot, IF req.id \in db THEN "ok" ELSE "failed",
                        IF req.id \in db THEN <<req.id>> ELSE <<>>)
              /\ UNCHANGED <<db, created>>
    /\ UNCHANGED <<sessionsStore, route, deleted>>
    /\ UNCHANGED notSessions

\* The request or its answer is lost: a network error, a timeout.
fail(slot) ==
    /\ net[slot].stage = "sent"
    /\ answer(slot, "failed", <<>>)
    /\ UNCHANGED <<sessionsStore, route, db, created, deleted>>
    /\ UNCHANGED notSessions

\* ---- the store's continuations ----
Loaded(state) == [state EXCEPT !.isLoading = FALSE, !.error = None]

Without(list, id) == SelectSeq(list, LAMBDA s : s # id)

\* The catch of every action: set({ isLoading: false, error }).
rejects(slot) ==
    /\ net[slot].stage = "failed"
    /\ sessionsStore' = [sessionsStore EXCEPT !.isLoading = FALSE,
                                              !.error = "Failed"]
    /\ net' = [net EXCEPT ![slot] = Idle]
    /\ UNCHANGED <<route, db, created, deleted>>
    /\ UNCHANGED notSessions

fetchSessions(slot) ==
    /\ net[slot].kind = "fetchSessions" /\ net[slot].stage = "ok"
    /\ sessionsStore' = [Loaded(sessionsStore) EXCEPT
                            !.sessions = net[slot].body,
                            !.total = Len(net[slot].body)]
    /\ net' = [net EXCEPT ![slot] = Idle]
    /\ UNCHANGED <<route, db, created, deleted>>
    /\ UNCHANGED notSessions

fetchSession(slot) ==
    /\ net[slot].kind = "fetchSession" /\ net[slot].stage = "ok"
    /\ sessionsStore' = [Loaded(sessionsStore) EXCEPT
                            !.currentSession = net[slot].body[1]]
    /\ net' = [net EXCEPT ![slot] = Idle]
    /\ UNCHANGED <<route, db, created, deleted>>
    /\ UNCHANGED notSessions

\* createSession resolves; handleCreateSession goes to the new session's
\* page, whose effect runs loadSession.
createSession(slot) ==
    LET session == net[slot].body[1] IN
    /\ net[slot].kind = "createSession" /\ net[slot].stage = "ok"
    /\ sessionsStore' = [sessionsStore EXCEPT
                            !.sessions = <<session>> \o @,
                            !.total = @ + 1,
                            !.isLoading = TRUE,
                            !.error = None]
    /\ route' = session
    /\ net' = [net EXCEPT ![slot] = [kind |-> "fetchSession", id |-> session,
                                     origin |-> session, stage |-> "sent",
                                     body |-> <<>>]]
    /\ deleted' = {}
    /\ UNCHANGED <<db, created>>
    /\ UNCHANGED notSessions

updateSession(slot) ==
    /\ net[slot].kind = "updateSession" /\ net[slot].stage = "ok"
    /\ sessionsStore' = Loaded(sessionsStore)
    /\ net' = [net EXCEPT ![slot] = Idle]
    /\ UNCHANGED <<route, db, created, deleted>>
    /\ UNCHANGED notSessions

\* deleteSession resolves; the detail page's handleDeleteConfirm goes on to
\* router.push('/sessions'), where loadSessions runs.
deleteSession(slot) ==
    LET id == net[slot].id
        after == [Loaded(sessionsStore) EXCEPT
                     !.sessions = Without(@, id),
                     !.total = @ - 1,
                     !.currentSession = IF @ = id THEN NoSession ELSE @]
    IN
    /\ net[slot].kind = "deleteSession" /\ net[slot].stage = "ok"
    /\ deleted' = deleted \cup {id}
    /\ IF net[slot].origin = ListRoute
         THEN /\ sessionsStore' = after
              /\ net' = [net EXCEPT ![slot] = Idle]
              /\ UNCHANGED route
         ELSE /\ sessionsStore' = [after EXCEPT !.isLoading = TRUE]
              /\ route' = ListRoute
              /\ net' = [net EXCEPT ![slot] =
                            [kind |-> "fetchSessions", id |-> NoSession,
                             origin |-> ListRoute, stage |-> "sent",
                             body |-> <<>>]]
    /\ UNCHANGED <<db, created>>
    /\ UNCHANGED notSessions

SessionsContent ==
    \/ loadSessions
    \/ handleCreateSession
    \/ \E id \in SessionIds : handleSessionClick(id)

SessionButtons ==
    \E id \in SessionIds : handleToggleStar(id) \/ handleDeleteConfirm(id)

Server == \E slot \in Slots : serve(slot) \/ fail(slot)

useSessionsStore ==
    \E slot \in Slots :
        \/ rejects(slot)
        \/ fetchSessions(slot)
        \/ fetchSession(slot)
        \/ createSession(slot)
        \/ updateSession(slot)
        \/ deleteSession(slot)

Next ==
    \/ Orchestrator
    \/ \E j \in JobIds : ProviderAdapter(j) \/ GenerationJob(j)
    \/ CancellationController

Init == InitWs /\ InitGen /\ InitCm /\ InitSsm /\ InitRetry /\ InitFe
        /\ InitSessions

Spec == Init /\ [][Next]_vars

NextWs == \E c \in Conns : websocket_endpoint(c) \/ ChatWebSocket(c)

SpecWs == Init /\ [][NextWs]_vars

\* The endpoint serving arbitrary clients that stay connected.
NextWsAny ==
    \E c \in Conns :
        \/ AnyClient(c)
        \/ accept(c)
        \/ receive_send_message(c)
        \/ \E chunk \in Fragments(WsResponses) : send_stream_chunk(c, chunk)
        \/ \E usage \in WsUsages : send_stream_end(c, usage)

SpecWsAny == Init /\ [][NextWsAny]_vars

NextSsm ==
    \/ submit
    \/ \E j \in JobIds : Generation(j)
    \/ \E c \in Conns : SessionConnection(c)

SpecSsm == Init /\ [][NextSsm]_vars

\* Every job's adapter and observer are scheduled on their own task; no
\* client is obliged to read.
FairSpecSsm == SpecSsm /\ \A j \in JobIds : WF_vars(Generation(j))

NextCm == ConnectionManager

NextRetry == Retrying

SpecRetry == Init /\ [][NextRetry]_vars

SpecCm == Init /\ [][NextCm]_vars

\* The event loop runs every handler that can take a step; nothing makes
\* the provider produce its next delta.
FairSpecWs == SpecWs /\ \A c \in Conns : WF_vars(HandlerStep(c))

NextFe == useAuthStore \/ Browser

SpecFe == Init /\ [][NextFe]_vars

NextSessions == SessionsContent \/ SessionButtons \/ Server \/ useSessionsStore

SpecSessions == Init /\ [][NextSessions]_vars
(***************************************************************************)
(* Claims settled against websocket_endpoint (SpecWs, FairSpecWs).         *)
(***************************************************************************)
\* C1: every stream_chunk a client observes carries the message id of its
\* stream and a chunk_index, and the chunk_index values of one message id
\* are 0, 1, 2, ... in the order observed.
C1_ChunkIndexContiguous ==
    \A c \in Conns : \A m \in MsgIds : \A i \in WsChunks(c, m) :
        /\ HasField(sent[c][i], "message_id")
        /\ HasField(sent[c][i], "chunk_index")
        /\ sent[c][i].message_id = m
        /\ sent[c][i].chunk_index =
              Cardinality({k \in WsChunks(c, m) : k < i})

\* C2: every message id with a stream_start gets exactly one terminal event
\* (stream_end or stream_error) once its stream is over, never two, and no
\* stream_chunk after it.
C2_ExactlyOneTerminal ==
    \A c \in Conns : \A m \in MsgIds :
        (\E i \in DOMAIN sent[c] : sent[c][i] = stream_start(m)) =>
            /\ Cardinality(WsTerminals(c, m)) <= 1
            /\ \A t \in WsTerminals(c, m) : \A k \in WsChunks(c, m) : k < t
            /\ (wsPc[c] \in {"receive", "returned", "raised"}
                    => Cardinality(WsTerminals(c, m)) = 1)

\* A stop_generation for the stream the handler is running waits in the
\* inbox of connection c.
StopIssued(c, m) ==
    /\ wsPc[c] = "stream"
    /\ streamMsg[c] = m
    /\ \E i \in DOMAIN inbox[c] :
          inbox[c][i] = [type |-> "stop_generation", message_id |-> m]

\* C4: once stop_generation is issued for a running generation, a
\* stream_end or stream_error for its message id is eventually sent (unless
\* the client itself went away).
C4_StopYieldsTerminal ==
    \A c \in Conns : \A m \in MsgIds :
        StopIssued(c, m) ~> (WsTerminals(c, m) # {} \/ wsPc[c] = "disconnected")

\* C8: when the provider fails after k chunks, a stream_error is sent and
\* the persisted message holds exactly those k chunks, an error status and
\* generating = false.
C8_PartialFailurePersisted ==
    \A c \in Conns :
        wsPc[c] = "raised" =>
            LET m == streamMsg[c]
            IN  /\ \E i \in WsTerminals(c, m) : sent[c][i].type = "stream_error"
                /\ messages[m].persisted
                /\ ~messages[m].generating
                /\ messages[m].content = WsContent(c, m)
                /\ \E i \in DOMAIN messages[m].status :
                      messages[m].status[i].type = "error"

\* C9: when a generation is stopped while it runs, the generation ends
\* there and the persisted message holds the chunks produced before the
\* stop took effect, the status "stopped by user" and generating = false.
C9_StoppedMessagePersisted ==
    \A c \in Conns :
        wsPc[c] = "returned" /\ stopIssued[c].running
                /\ stopIssued[c].chunks # <<>> =>
            LET m == stopIssued[c].message_id
            IN  /\ messages[m].persisted
                /\ ~messages[m].generating
                /\ messages[m].content = WsContent(c, m)
                /\ messages[m].status =
                      <<[type |-> "info", text |-> "stopped by user"]>>
\* C15: a send_message whose payload fails validation has no effect: no
\* message_created and no stream_start is sent for it, so every
\* message_created confirms a valid message.
C15_MalformedRejected ==
    \A c \in Conns : \A i \in DOMAIN sent[c] :
        sent[c][i].type = "message_created" => MessageCreate(sent[c][i].message)
(***************************************************************************)
(* Claims settled against the generation subsystem (Spec).                 *)
(***************************************************************************)
TerminalTypes == {"stream_end", "stream_error"}

TerminalEvents(m) ==
    {i \in DOMAIN events[m] : events[m][i].type \in TerminalTypes}

ChunkEvents(m) ==
    {i \in DOMAIN events[m] : events[m][i].type = "stream_chunk"}

\* The jobs that were ever created for message id m.
JobsOf(m) == {j \in JobIds : jobs[j].state # "None" /\ jobs[j].message_id = m}

Occurred(e) == {i \in DOMAIN errors : errors[i].error = e}

TimedOut(m) ==
    \E i \in Occurred("CancellationTimeout") : errors[i].message_id = m

C3_Registry ==
    /\ \A m \in MsgIds : Cardinality(RegistryLookup(m)) <= 1
    /\ \A m \in MsgIds : Cardinality(JobsOf(m)) <= 1
    /\ \A j \in JobIds : j \in registry <=> jobs[j].state \in ActiveStates
    /\ attempts = Cardinality({j \in JobIds : jobs[j].state # "None"})
                    + Cardinality(Occurred("DuplicateGenerationError"))

C3_Rejection ==
    Len(errors') > Len(errors)
        /\ errors'[Len(errors')].error = "DuplicateGenerationError" =>
            /\ RegistryLookup(errors'[Len(errors')].message_id) # {}
            /\ UNCHANGED <<jobs, registry, chan, adapter, produced, messages,
                           events>>

\* C3: the registry never holds two active jobs for one message id, it holds
\* exactly the jobs that are Queued or Streaming, of the attempts made for a
\* message id exactly one succeeded and every other one was rejected with
\* DuplicateGenerationError, and a rejection leaves the registered job, its
\* state, chunk counter and content, unchanged.
C3_OneActiveJobPerMessage == []C3_Registry /\ [][C3_Rejection]_vars

\* C3 witness: an attempt was rejected while the job it raced with streams.
C3_Witness ==
    \E j \in registry :
        /\ jobs[j].state = "Streaming"
        /\ \E i \in Occurred("DuplicateGenerationError") :
              errors[i].message_id = jobs[j].message_id

C5_OneTerminalEvent ==
    \A m \in MsgIds :
        /\ Cardinality(TerminalEvents(m)) <= 1
        /\ (\E j \in JobsOf(m) : jobs[j].state \in TerminalStates)
              <=> Cardinality(TerminalEvents(m)) = 1

C5_CancelStep ==
    \A m \in MsgIds :
        cancels'[m] > cancels[m] =>
            /\ UNCHANGED <<registry, chan, adapter, produced, messages, events,
                           errors, attempts>>
            /\ \A j \in JobIds :
                  /\ jobs'[j].state = jobs[j].state
                  /\ jobs'[j].content = jobs[j].content
                  /\ jobs'[j].chunk_seq = jobs[j].chunk_seq
                  /\ jobs[j].message_id # m => jobs'[j] = jobs[j]
            /\ (\A j \in JobsOf(m) : jobs[j].cancel \/ jobs[j].state \in TerminalStates)
                  => jobs' = jobs

AllowedTransitions ==
    {<<"None", "Queued">>, <<"Queued", "Streaming">>}
        \cup {<<a, b>> : a \in ActiveStates, b \in TerminalStates}

C6_JobStep ==
    \A j \in JobIds :
        /\ jobs'[j].state # jobs[j].state
              => <<jobs[j].state, jobs'[j].state>> \in AllowedTransitions
        /\ jobs[j].state = "Queued" /\ jobs'[j].state = "Streaming"
              => jobs[j].chunk_seq = 0 /\ jobs'[j].chunk_seq = 1
        /\ jobs[j].state \in TerminalStates =>
              /\ jobs'[j].state = jobs[j].state
              /\ jobs'[j].content = jobs[j].content
              /\ jobs'[j].chunk_seq = jobs[j].chunk_seq
              /\ messages'[jobs[j].message_id] = messages[jobs[j].message_id]
              /\ events'[jobs[j].message_id] = events[jobs[j].message_id]

\* C6: a job's state changes only forward along Queued, Streaming, terminal
\* (Streaming is entered with the first accepted delta; a job may end before
\* any delta); a terminal state never changes, and from then on nothing is
\* appended to the job's content or its message and no event is emitted for
\* its message id.
C6_JobStateMachine == [][C6_JobStep]_vars

\* C6 witness: a delta arrived for a job that was already terminal and was
\* dropped: the adapter produced more than the job accepted.
C6_Witness ==
    \E j \in JobIds :
        /\ jobs[j].state \in TerminalStates
        /\ chan[j] = <<>>
        /\ Len(produced[j]) > Len(jobs[j].content)

C7_CompletionKept ==
    \A j \in JobIds :
        jobs[j].state = "Completed" =>
            LET msg == messages[jobs[j].message_id]
            IN  /\ adapter[j].st = "ended"
                /\ msg.content = produced[j]
                /\ msg.usage = adapter[j].usage
                /\ msg.usage \in Usages
                /\ \A i \in DOMAIN msg.status : msg.status[i] # StoppedByUser

\* A cancel request and natural completion race: the token of job j is set
\* and its adapter ended normally, so it acknowledged no cancellation.
C7_Race(j) == jobs[j].cancel /\ adapter[j].st = "ended"

C7_RaceEndsCompleted ==
    \A j \in JobIds :
        C7_Race(j) /\ jobs[j].state \in TerminalStates
            => jobs[j].state = "Completed"

C7_CancelledCause ==
    \A j \in JobIds :
        jobs[j].state = "Cancelled" =>
            /\ jobs[j].cancel
            /\ adapter[j].st = "acked" \/ TimedOut(jobs[j].message_id)
            /\ ~TimedOut(jobs[j].message_id) => adapter[j].usage = 0

C7_CompletedStays ==
    \A j \in JobIds :
        jobs[j].state = "Completed" =>
            /\ jobs'[j].state = "Completed"
            /\ messages'[jobs[j].message_id] = messages[jobs[j].message_id]

IsPrefix(s, t) == Len(s) <= Len(t) /\ \A i \in DOMAIN s : s[i] = t[i]

\* The content parts of message m: those its job has accumulated while the
\* message is generating, the finalized ones afterwards.
ContentPartsOf(msgs, jbs, reg, m) ==
    IF msgs[m].generating
    THEN LET act == {j \in reg : jbs[j].message_id = m}
         IN  IF act = {} THEN <<>> ELSE jbs[CHOOSE j \in act : TRUE].content
    ELSE msgs[m].content

C11_AppendOnly ==
    \A m \in MsgIds :
        messages[m].persisted /\ messages[m].generating =>
            IsPrefix(ContentPartsOf(messages, jobs, registry, m),
                     ContentPartsOf(messages', jobs', registry', m))

\* The case the claim names: a message finalized Failed or Cancelled.
C11_NonEmptyOnceFinal ==
    \A m \in MsgIds :
        /\ messages[m].persisted
        /\ ~messages[m].generating
        /\ \E j \in JobsOf(m) : jobs[j].state \in {"Failed", "Cancelled"}
        => messages[m].content # <<>>

AcceptedDeltas(m) ==
    IF JobsOf(m) = {} THEN 0 ELSE jobs[CHOOSE j \in JobsOf(m) : TRUE].chunk_seq

C11_NonEmptyIffDelta ==
    \A m \in MsgIds :
        messages[m].persisted /\ ~messages[m].generating =>
            /\ Len(messages[m].content) = AcceptedDeltas(m)
            /\ (AcceptedDeltas(m) > 0 => messages[m].content # <<>>)
            /\ (\E j \in JobsOf(m) : jobs[j].state \in {"Failed", "Cancelled"})
                  => messages[m].status # <<>>

ProviderErrorStep(j) ==
    \/ adapter[j].st # "failed" /\ adapter'[j].st = "failed"
    \/ jobs[j].state # "Failed" /\ jobs'[j].state = "Failed"

C17_ErrorFrame ==
    \A j \in JobIds :
        ProviderErrorStep(j) =>
            /\ \A k \in JobIds \ {j} :
                  /\ jobs'[k] = jobs[k]
                  /\ chan'[k] = chan[k]
                  /\ adapter'[k] = adapter[k]
                  /\ produced'[k] = produced[k]
                  /\ (k \in registry') = (k \in registry)
            /\ \A m \in MsgIds \ {jobs[j].message_id} :
                  /\ messages'[m] = messages[m]
                  /\ events'[m] = events[m]
                  /\ subscribers'[m] = subscribers[m]

C17_OthersGoOn ==
    \A j \in JobIds : \A k \in JobIds :
        /\ jobs[j].state = "Failed"
        /\ IsActive(k)
        /\ chan[k] # <<>>
        => ENABLED GenerationJob(k)

Drained(s) == \A c \in Conns : pubsub[c].session = s => pubsub[c].queue = <<>>

\* What was broadcast on the channel of session s after c connected.
BroadcastSince(c, s) ==
    SubSeq(published[s], pubsub[c].joined + 1, Len(published[s]))

\* C12: every connection open on a session is sent every event broadcast for
\* the session while it is connected, once and in order, so two connections
\* of one session observe the same events and a second connection does not
\* replace or silence the first.
C12_EveryTabReceivesTheStream ==
    \A s \in Sessions : \A c \in Conns :
        pubsub[c].session = s /\ Drained(s)
            => sent_text[c] = BroadcastSince(c, s)
(***************************************************************************)
(* Claims settled against the Session Stream Manager (SpecSsm).            *)
(***************************************************************************)
\* What connection c has been sent for message id m: what its client has
\* received and what still waits in its send queue, in order.
Seen(c, m) ==
    observed[c][m] \o SelectSeq(send_queue[c], LAMBDA e : e.message_id = m)

C13_QueueBounded == \A c \in Conns : Len(send_queue[c]) <= QueueBound

C13_OthersReceiveAll ==
    \A m \in MsgIds : \A c \in subscribers[m] :
        conn_state[c] = "open" /\ Seen(c, m) = events[m]

C13_DropStep ==
    \A c \in Conns :
        conn_state[c] = "open" /\ conn_state'[c] = "dropped" =>
            /\ Len(send_queue[c]) = QueueBound
            /\ \E m \in MsgIds :
                  /\ Len(events'[m]) = Len(events[m]) + 1
                  /\ c \notin subscribers'[m]
                  /\ \E j \in JobIds :
                        jobs'[j].message_id = m /\ jobs'[j] # jobs[j]

\* Whenever jobs are active, a state follows in which none is: each of
\* them has left the registry, which a job does only by becoming terminal.
C13_JobsTerminate == (registry # {}) ~> (registry = {})

ChunksOf(q) == SelectSeq(q, LAMBDA e : e.type = "stream_chunk")

C14_NoHistoricalChunks ==
    \A c \in Conns : \A m \in MsgIds :
        \/ IsPrefix(Seen(c, m), events[m])
        \/ /\ Seen(c, m) = <<FinalMessage(m, messages[m].content)>>
           /\ messages[m].persisted
           /\ ~messages[m].generating
           /\ c \notin subscribers[m]

C14_ChunksFromZero ==
    \A c \in Conns : \A m \in MsgIds :
        \A k \in DOMAIN ChunksOf(Seen(c, m)) :
            ChunksOf(Seen(c, m))[k].chunk_index = k - 1

C14_JoinStep ==
    \A c \in Conns : \A m \in MsgIds :
        c \in subscribers'[m] /\ c \notin subscribers[m]
            => events[m] = <<>> /\ conn_state[c] = "open"

C16_RetryOnlyTransient ==
    /\ attempt_number <= stop_after_attempt
    /\ \A i \in DOMAIN raised :
          i < attempt_number => raised[i] = "transient-network"
(***************************************************************************)
(* Claims settled against the web client (SpecFe).                         *)
(***************************************************************************)
\* The ApiClient sent a request to url in this step.
Sent(url) ==
    /\ last_request'.seq # last_request.seq
    /\ last_request'.url = url

\* The access token the client holds has expired and it holds a refresh
\* token.
AccessTokenExpired ==
    /\ auth.isAuthenticated
    /\ getToken # NoToken /\ getToken \notin valid
    /\ getRefreshToken # NoToken /\ auth.refreshToken # NoToken

\* C18: an API call made after the access token expired, while a refresh
\* token is held, leaves the client with refreshed tokens the server
\* accepts, the store authenticated, and the user on the page they were on:
\* no logout and no redirect to /login.
C18_AutomaticTokenRefresh ==
    [][Sent("/api/v1/sessions") /\ AccessTokenExpired
          => /\ auth'.isAuthenticated
             /\ localStorage'.access_token \in valid'
             /\ auth'.accessToken = localStorage'.access_token
             /\ localStorage'.refresh_token # NoToken
             /\ location' = location]_vars

\* C19: whenever the auth store has isAuthenticated = true, the request the
\* ApiClient sends carries Authorization: Bearer <token> with the store's
\* current accessToken, after any sequence of login, register, refresh,
\* logout and 401 responses.
C19_AuthorizationWhenAuthenticated ==
    [][last_request'.seq # last_request.seq /\ auth.isAuthenticated
          => /\ auth.accessToken # NoToken
             /\ last_request'.Authorization = Bearer(auth.accessToken)]_vars

\* The URL-encoded form of each pathname a protected page has.
UrlEncoded(pathname) ==
    CASE pathname = Dashboard -> <<"%2F", "dashboard">>
      [] pathname = SessionsPage -> <<"%2F", "sessions">>
      [] pathname = SessionDetailPage -> <<"%2F", "session", "%2F", "42">>

\* ProtectedRoute shows its children only to an authenticated user whose
\* store is not loading.
C20_ChildrenOnlyWhenAuthenticated ==
    PageGuard(location.pathname) = "ProtectedRoute" /\ Screen = "children"
        => auth.isAuthenticated /\ ~auth.isLoading

\* On a protected page, a store that is neither loading nor authenticated
\* makes ProtectedRoute navigate.
C20_Navigates ==
    /\ PageGuard(location.pathname) = "ProtectedRoute"
    /\ ~auth.isLoading /\ ~auth.isAuthenticated
    => ENABLED ProtectedRoute_useEffect

\* Where ProtectedRoute navigates to.
C20_ToLoginWithReturnUrl ==
    nav.by = "ProtectedRoute"
        => /\ location.pathname = Login
           /\ location.search
                  = <<"?", "returnUrl", "=">> \o UrlEncoded(nav.from)

\* C20: a user whose store has isAuthenticated = false never sees the
\* content of a protected page: ProtectedRoute renders its children only
\* when isAuthenticated is true and isLoading is false; when isLoading and
\* isAuthenticated are both false it navigates to /login?returnUrl=<the
\* URL-encoded current pathname>, and its return URL for the pathnames
\* /login and /register is /dashboard.
C20_ProtectedRoute ==
    /\ C20_ChildrenOnlyWhenAuthenticated
    /\ C20_Navigates
    /\ C20_ToLoginWithReturnUrl
    /\ \A pathname \in {Login, Register} :
          encodeURIComponent(returnUrl(pathname)) = <<"%2F", "dashboard">>

\* C20 witness: a signed-out user opened /dashboard, saw no content and
\* is now at /login?returnUrl=%2Fdashboard.
C20_Witness ==
    /\ ~auth.isAuthenticated
    /\ nav = [by |-> "ProtectedRoute", from |-> Dashboard]
    /\ location = [pathname |-> Login,
                   search |-> <<"?", "returnUrl", "=", "%2F", "dashboard">>]

\* A call of logout ends in this step, its request answered with any status.
LogoutEnds ==
    \E op \in {"logout", "refresh_logout"} :
        \E status \in Statuses \cup {200} : logout_settles(op, status)

\* C21: logout always ends with the auth store at user = null, accessToken
\* = null, refreshToken = null, isAuthenticated = false, isLoading = false,
\* error = null and with access_token and refresh_token removed from
\* localStorage, whether the logout request succeeds or fails, and logout
\* never throws to its caller.
C21_LogoutAlwaysSignsOut ==
    /\ [][LogoutEnds
             => /\ auth' = AuthInitial
                /\ localStorage'
                      = [access_token |-> NoToken, refresh_token |-> NoToken]
                /\ returned'["logout"] = "resolved"]_vars
    /\ [](returned["logout"] # "threw")

\* C21 witness: a signed-in user's logout request was answered 401; the
\* call came back, the store is signed out and localStorage holds no token.
C21_Witness ==
    /\ issued > 0
    /\ last_request.url = "/api/v1/auth/logout"
    /\ nav.by = "ApiClient"
    /\ returned["logout"] = "resolved"
    /\ auth = AuthInitial
    /\ localStorage = [access_token |-> NoToken, refresh_token |-> NoToken]
\* The answer to a login or refreshAccessToken call that a completed logout
\* overtook is applied in this step.
OvertakenResolves ==
    \/ "login" \in overtaken /\ login_resolves
    \/ "refresh" \in overtaken /\ refresh_resolves

\* C23: once logout has completed, the answer to a login or
\* refreshAccessToken request that was in flight when logout ran does not
\* set isAuthenticated back to true and restores no token: the store stays
\* unauthenticated until a call started after the logout succeeds.
C23_LogoutIsFinal ==
    [][OvertakenResolves
          => /\ ~auth'.isAuthenticated
             /\ auth'.accessToken = NoToken /\ auth'.refreshToken = NoToken
             /\ localStorage' = cleared]_vars
\* The ApiClient receives a 401 response to a request of one of the pages
\* in this step.
Received401 ==
    \/ getSessions /\ getToken \notin valid
    \/ login_rejects(401)
    \/ register_rejects(401)
    \/ \E op \in {"logout", "refresh_logout"} : logout_settles(op, 401)

\* C25: after a 401 response the ApiClient has removed access_token and
\* refresh_token from localStorage and the browser is at /login, where the
\* login form is shown: the auth store is unauthenticated, so AuthGuard
\* renders the form and does not send the user on to /dashboard.
C25_LoginFormAfter401 ==
    [][Received401
          => /\ localStorage' = cleared
             /\ location'.pathname = Login
             /\ ~auth'.isAuthenticated
             /\ AuthGuard(auth'.isAuthenticated, auth'.isLoading)
                    = "children"]_vars
(***************************************************************************)
(* Claims settled against the sessions store (SpecSessions).               *)
(***************************************************************************)
\* C22: once deleteSession(id) has succeeded, and until a session is
\* created again, no entry of the store's list has that id and
\* currentSession is not that session, also when the answer to a
\* fetchSessions issued before the delete is received after it.
C22_DeletedStaysGone ==
    \A id \in deleted :
        /\ id \notin Ids(sessionsStore.sessions)
        /\ sessionsStore.currentSession # id

\* C24: whenever the session detail page for route id R shows session data
\* (isLoading is false and currentSession is non-null), currentSession.id
\* equals R, also after fetchSession(R) failed and when the answers to
\* fetchSession calls for different ids arrive out of order.
C24_DetailShowsRouteSession ==
    /\ route # ListRoute
    /\ ~sessionsStore.isLoading
    /\ sessionsStore.currentSession # NoSession
    => sessionsStore.currentSession = route

\* C26: no two entries of the sessions store's list ever have the same id,
\* under every interleaving of the requests and responses of fetchSessions
\* and createSession, the server giving every session a distinct id and
\* returning each session at most once per list response.
C26_NoDuplicateSessions ==
    \A i \in DOMAIN sessionsStore.sessions :
        \A j \in DOMAIN sessionsStore.sessions :
            sessionsStore.sessions[i] = sessionsStore.sessions[j] => i = j
====
